---- MODULE Spec2Model ----
(***************************************************************************)
(* A model of FSumFitter (src/fitter.py): the baseline estimator           *)
(* fit_baseline and the per-dataset pipeline of process_file.              *)
(*                                                                         *)
(* Numbers are fixed-point integers:                                       *)
(*   energies, Eg, Eb      0.01 eV      (0.2 eV = 20, Eb = 0.050 -> 5)     *)
(*   absorption            0.001        (the 0.01 threshold = 10)          *)
(*   Gamma 0.001 eV, ucvsq 0.01, mhcnp 0.001, q 0.1                        *)
(* A parameter vector is <<Eg, Eb, Gamma, ucvsq, mhcnp, q>>; Python index  *)
(* k is index k+1 here. An optional argument is None (<<>>) or <<value>>.  *)
(* A boolean mask is a sequence of BOOLEAN as long as the energy axis.     *)
(* scipy's minimize is outside the repository: its result is any of a few  *)
(* points of the bounds' box, and the sse fsum2d returns there is any of a *)
(* few non-negative numbers.                                               *)
(***************************************************************************)
EXTENDS Integers, Sequences, FiniteSets, TLC

VARIABLES
  fitmode, start_point, lb, rb,          \* the FSumFitter object (None before construction)
  pc, ret,                               \* the caller's and process_file's position; the value a call returned
  xdata, raw, T, min_energy, max_energy, auto_range,   \* process_file: the table and the arguments
  file_ext, all_lines, data_start_idx, data_lines,     \* process_file: the text and what the loader made of it
  T_arg,                                 \* process_file: the argument T as the caller gave it (line 380 rebinds T)
  i,                                     \* the dataset loop's index (column of raw)
  initial_baseline, initial_baseline_mask, initial_Eg,
  dynamic_start_point, dynamic_lb, dynamic_rb,
  prelim_estimates, baseline, baseline_mask,
  fit_mask, estimates, sse,
  calls,                                 \* the fit_data calls of the current dataset, in order
  fitresult, quality, slopes, intersects, processed_T,
  fit_masks, baseline_masks, fittedbaseline, cleandata, fittedurbach

fitterVars == <<fitmode, start_point, lb, rb>>
argVars    == <<xdata, raw, T, min_energy, max_energy, auto_range,
                file_ext, all_lines, data_start_idx, data_lines, T_arg>>
localVars  == <<initial_baseline, initial_baseline_mask, initial_Eg, dynamic_start_point, dynamic_lb,
                dynamic_rb, prelim_estimates, baseline, baseline_mask, fit_mask,
                estimates, sse, calls>>
resultVars == <<fitresult, quality, slopes, intersects, processed_T, fit_masks,
                baseline_masks, fittedbaseline, cleandata, fittedurbach>>
vars == <<fitterVars, pc, ret, argVars, i, localVars, resultVars>>

None == <<>>
Some(v) == <<v>>

(***************************** bounds of the model *************************)
LenSmall == 8      \* a short energy axis (fewer than 10 points)
LenMid   == 12     \* an energy axis of process_file's files
LenBig   == 40     \* 30% of it lies between 10 and 50 points
LenHuge  == 170    \* 30% of it is more than 50 points
LenFsum  == 3      \* the axis of a direct call of fsum2d

(***************************** sequences and masks *************************)
Max(a, b) == IF a > b THEN a ELSE b
Min(a, b) == IF a < b THEN a ELSE b

\* the sum of s[a..b], by halves
RECURSIVE SumRange(_, _, _)
SumRange(s, a, b) ==
  IF a > b THEN 0
  ELSE IF a = b THEN s[a]
  ELSE SumRange(s, a, (a + b) \div 2) + SumRange(s, (a + b) \div 2 + 1, b)

SumSeq(s) == SumRange(s, 1, Len(s))

Dot(s, t) == SumSeq([j \in 1..Len(s) |-> s[j] * t[j]])

Zeros(n) == [j \in 1..n |-> 0]
AllFalse(n) == [j \in 1..n |-> FALSE]
AllTrue(n) == [j \in 1..n |-> TRUE]

\* np.sum(mask)
CountTrue(mask) == Cardinality({j \in 1..Len(mask) : mask[j]})

\* s[mask]: the entries of s the mask selects, in array order
RECURSIVE CompressRange(_, _, _, _)
CompressRange(s, mask, a, b) ==
  IF a > b THEN <<>>
  ELSE IF a = b THEN (IF mask[a] THEN <<s[a]>> ELSE <<>>)
  ELSE CompressRange(s, mask, a, (a + b) \div 2)
         \o CompressRange(s, mask, (a + b) \div 2 + 1, b)

Compress(s, mask) == CompressRange(s, mask, 1, Len(s))

MaskAnd(m1, m2) == [j \in 1..Len(m1) |-> m1[j] /\ m2[j]]
Minus(s, t) == [j \in 1..Len(s) |-> s[j] - t[j]]
Reverse(s) == [j \in 1..Len(s) |-> s[Len(s) + 1 - j]]

\* mask[:k] = True and mask[-k:] = True on an all-false mask of length n (k > 0)
FirstK(n, k) == [j \in 1..n |-> j <= k]
LastK(n, k) == [j \in 1..n |-> j > n - k]

\* xdata[0] < xdata[-1]
IsAscending(x) == x[1] < x[Len(x)]

(***************************** fit_baseline ********************************)
\* (mutant) 30% of the points, not clamped to [10, 50]
NPoints_NoClamp(x) == (Len(x) * 3) \div 10

\* n_points = max(10, min(50, int(len(xdata) * 0.3)))
NPoints(x) == Max(10, Min(50, (Len(x) * 3) \div 10))

\* the lowest-energy window: the first n_points of an ascending axis, the last of
\* a descending one
LowWindow(x) ==
  IF IsAscending(x) THEN FirstK(Len(x), NPoints(x)) ELSE LastK(Len(x), NPoints(x))

\* (mutant) the earlier threshold, Eg - 2 * Eb
BelowSafeThreshold_TwoEb(x, Eg, Eb) == [j \in 1..Len(x) |-> x[j] < Eg - 2 * Eb]

\* xdata < Eg - 1.5 * Eb
BelowSafeThreshold(x, Eg, Eb) == [j \in 1..Len(x) |-> 2 * x[j] < 2 * Eg - 3 * Eb]

\* xdata < Eg
BelowEg(x, Eg) == [j \in 1..Len(x) |-> x[j] < Eg]

\* baseline_mask[:min(20, len(xdata))] = True
LegacyFallback(x) == FirstK(Len(x), Min(20, Len(x)))

\* the points the baseline is fitted on
BaselineMask(x, Eg, Eb) ==
  IF Eg # None
  THEN IF Eb # None /\ Eb[1] > 0
       THEN LET m == BelowSafeThreshold(x, Eg[1], Eb[1])
            IN IF CountTrue(m) < 5 THEN LowWindow(x) ELSE m
       ELSE LET m == BelowEg(x, Eg[1])
            IN IF CountTrue(m) < 5 THEN LegacyFallback(x) ELSE m
  ELSE LowWindow(x)

\* np.polyfit(x_fit, y_fit, 1) then np.polyval(coeffs, xdata); the coefficients
\* keep three more decimals than the data
LinearBaseline(x_fit, y_fit, x) ==
  LET n == Len(x_fit)
      Sx == SumSeq(x_fit)
      Sy == SumSeq(y_fit)
      D == n * Dot(x_fit, x_fit) - Sx * Sx
      N == n * Dot(x_fit, y_fit) - Sx * Sy
      slope == (N * 1000) \div D
      intercept == (Sy * 1000 - slope * Sx) \div n
  IN [j \in 1..Len(x) |-> (slope * x[j] + intercept) \div 1000]

\* E ** 4 in eV^4
E4(e) == (((e * e) \div 100) * ((e * e) \div 100)) \div 10000

\* a = sum(y * E^4) / sum(E^8); baseline = a * E^4; zero when sum(E^8) < 1e-10
RayleighBaseline(x_fit, y_fit, x) ==
  LET E4_fit == [j \in 1..Len(x_fit) |-> E4(x_fit[j])]
      sumE8 == Dot(E4_fit, E4_fit)
      a == (Dot(y_fit, E4_fit) * 1000) \div sumE8
  IN IF sumE8 = 0 THEN Zeros(Len(x))
     ELSE [j \in 1..Len(x) |-> (a * E4(x[j])) \div 1000]

Returned(b, m) == [kind |-> "return", baseline |-> b, mask |-> m]
Raised(e) == [kind |-> e, baseline |-> <<>>, mask |-> <<>>]

\* (mutant) mode 0 falls through to the Rayleigh fit
FitBaseline_NoModeZero(mode, x, y, Eg, Eb) ==
  LET mask == BaselineMask(x, Eg, Eb)
      x_fit == Compress(x, mask)
      y_fit == Compress(y, mask)
  IN IF Len(x_fit) < 2 THEN Returned(Zeros(Len(x)), mask)
     ELSE IF mode = 1 THEN Returned(LinearBaseline(x_fit, y_fit, x), mask)
     ELSE IF mode \in {0, 2} THEN Returned(RayleighBaseline(x_fit, y_fit, x), mask)
     ELSE Raised("ValueError")

\* (mutant) too few points: a zero baseline with an all-false mask, as in mode 0
FitBaseline_FewAllFalse(mode, x, y, Eg, Eb) ==
  IF mode = 0 THEN Returned(Zeros(Len(x)), AllFalse(Len(x)))
  ELSE LET mask == BaselineMask(x, Eg, Eb)
           x_fit == Compress(x, mask)
           y_fit == Compress(y, mask)
       IN IF Len(x_fit) < 2 THEN Returned(Zeros(Len(x)), AllFalse(Len(x)))
          ELSE IF mode = 1 THEN Returned(LinearBaseline(x_fit, y_fit, x), mask)
          ELSE IF mode = 2 THEN Returned(RayleighBaseline(x_fit, y_fit, x), mask)
          ELSE Raised("ValueError")

\* fit_baseline: the baseline over the whole axis and the mask it was fitted on
FitBaseline(mode, x, y, Eg, Eb) ==
  IF mode = 0 THEN Returned(Zeros(Len(x)), AllFalse(Len(x)))
  ELSE LET mask == BaselineMask(x, Eg, Eb)
           x_fit == Compress(x, mask)
           y_fit == Compress(y, mask)
       IN IF Len(x_fit) < 2 THEN Returned(Zeros(Len(x)), mask)
          ELSE IF mode = 1 THEN Returned(LinearBaseline(x_fit, y_fit, x), mask)
          ELSE IF mode = 2 THEN Returned(RayleighBaseline(x_fit, y_fit, x), mask)
          ELSE Raised("ValueError")

(***************************** fit_data *************************************)
\* start_point brought inside the bounds, as L-BFGS-B does before it iterates
Clip(p, lo, hi) == [k \in 1..Len(p) |-> Max(lo[k], Min(hi[k], p[k]))]

\* what fit_data returns: result.x and the sse of fsum2d there, whatever
\* result.success says
FitResult(x, s, success) ==
  [kind |-> "return", estimates |-> x, sse |-> s, success |-> success]

\* (mutant) fit_data raises when the optimizer reports no success
FitData_RaiseOnFailure(xs, ys, start, lo, hi) ==
  { FitResult(Clip(start, lo, hi), 40 * Len(xs), TRUE),
    [kind |-> "RuntimeError", estimates |-> lo, sse |-> 90 * Len(xs), success |-> FALSE] }

\* What minimize may end on: the start point itself, with success reported, or
\* the lower corner of the box when the 1000 iterations are used up, without. The
\* sse fsum2d returns there is not computed in process_file's calls: it is a
\* number that differs between the two points and grows with the points fitted.
FitData(xs, ys, start, lo, hi) ==
  { FitResult(Clip(start, lo, hi), 40 * Len(xs), TRUE),
    FitResult(lo, 90 * Len(xs), FALSE) }

\* one fit_data call, as process_file makes it
FitCall(stage, mask, ys, start, lo, hi, o) ==
  [stage |-> stage, mask |-> mask, ys |-> ys, start |-> start, lb |-> lo, rb |-> hi,
   estimates |-> o.estimates, sse |-> o.sse, success |-> o.success]

(***************************** fsum2d ***************************************)
\* fsum2d in fixed point: energies inside it in 0.0001 eV, arguments of cosh and
\* exp and their values in 0.001, the two contributions in 0.000001, the curves in
\* 0.001 like the data, sse in 0.000001.
Abs(a) == IF a < 0 THEN -a ELSE a

\* a / b taken down to an integer, for a divisor of either sign
Quot(a, b) == IF b > 0 THEN a \div b ELSE (-a) \div (-b)

\* np.sqrt of a number below 2^31, taken down to an integer
RECURSIVE ISqrtIn(_, _, _)
ISqrtIn(v, lo, hi) ==
  IF lo >= hi THEN lo
  ELSE LET mid == (lo + hi + 1) \div 2
       IN IF mid * mid <= v THEN ISqrtIn(v, mid, hi) ELSE ISqrtIn(v, lo, mid - 1)
ISqrt(v) == ISqrtIn(v, 0, 46340)

\* np.exp(-z) for z >= 0: e^-n from a table, e^-f for the fraction by its series
ExpNeg(z) ==
  LET n == z \div 1000
      f == z % 1000
      f2 == (f * f) \div 1000
      f3 == (f2 * f) \div 1000
      f4 == (f3 * f) \div 1000
      f5 == (f4 * f) \div 1000
      frac == 1000 - f + f2 \div 2 - f3 \div 6 + f4 \div 24 - f5 \div 120
  IN IF n >= 8 THEN 0
     ELSE (<<1000, 368, 135, 50, 18, 7, 2, 1>>[n + 1] * frac) \div 1000

\* gamma_safe = max(abs(gamma), 1e-10) and np.clip((x - E0) / gamma_safe, -700, 700),
\* as its absolute value: delta = x - E0
CoshArg(delta, gamma) ==
  IF gamma = 0 THEN (IF delta = 0 THEN 0 ELSE 700000)
  ELSE Min(700000, (100 * Abs(delta)) \div Abs(gamma))

\* 1 / np.cosh(z) = 2 e^-|z| / (1 + e^-2|z|)
Sech(z) == LET e == ExpNeg(z) IN (2000 * e) \div (1000 + (e * e) \div 1000)

\* (mutant) no term of the exciton sum is skipped
SkipTerm_Never(n, q) == FALSE

\* abs(i - q) < 1e-10
SkipTerm(n, q) == 10 * n - q = 0

\* anx at the point x: 2 Eb / (n - q)^3 / cosh((x - Enx) / gamma_safe), with
\* Enx = Eg - Eb / (n - q)^2
ExcitonTerm(n, x, Eg, Eb, gamma, q) ==
  LET d == 10 * n - q
      Enx == 100 * Eg - Quot(10000 * Eb, d * d)
  IN Quot(20000 * Eb * Sech(CoshArg(100 * x - Enx, gamma)), d * d * d)

\* the terms for i in range(1, 51) that are added to a1
ExcitonTerms(q) == {n \in 1..50 : ~SkipTerm(n, q)}

\* a1 at the point x: the sum of the terms, by halves of the range
RECURSIVE ExcitonSum(_, _, _, _, _, _, _)
ExcitonSum(a, b, x, Eg, Eb, gamma, q) ==
  IF a > b THEN 0
  ELSE IF a = b
  THEN (IF a \in ExcitonTerms(q) THEN ExcitonTerm(a, x, Eg, Eb, gamma, q) ELSE 0)
  ELSE LET m == (a + b) \div 2
       IN ExcitonSum(a, m, x, Eg, Eb, gamma, q) + ExcitonSum(m + 1, b, x, Eg, Eb, gamma, q)

\* E = np.linspace(Eg, 2 * Eg, 10 * len(xdata)): point k of N (0-based)
BandGrid(Eg, N, k) == 100 * Eg + (100 * Eg * k) \div (N - 1)

\* a2[i, :] at the point x for the grid energy E: zero when E - Eg <= 0, else
\* (1 + b) / denominator / cosh((x - E) / gamma_safe) with
\* b = 10 mhcnp (E - Eg) + 126 mhcnp^2 (E - Eg)^2 and
\* denominator = 1 - exp(-2 pi sqrt(Eb / (E - Eg))), 1 when Eb / (E - Eg) <= 0
BandIntegrand(E, x, Eg, Eb, gamma, mhcnp) ==
  LET energy_diff == E - 100 * Eg
      t == (mhcnp * energy_diff) \div 1000
      b == t + (((t * t) \div 1000) * 126) \div 100
      root == ISqrt((Eb * 100000000) \div energy_diff)
      expo == 1000 - ExpNeg((6283 * root) \div 1000)
      denominator == IF Eb <= 0 THEN 1000 ELSE IF expo = 0 THEN 1 ELSE expo
  IN IF energy_diff <= 0 THEN 0
     ELSE (Sech(CoshArg(100 * x - E, gamma)) * (1000 + b)) \div denominator

\* trapz(a2, E, axis=0) at the point x: the trapezoids k..k+1 for k in a..b
RECURSIVE BandTrapz(_, _, _, _, _, _, _, _)
BandTrapz(a, b, N, x, Eg, Eb, gamma, mhcnp) ==
  IF a > b THEN 0
  ELSE IF a = b
  THEN ((BandIntegrand(BandGrid(Eg, N, a), x, Eg, Eb, gamma, mhcnp)
          + BandIntegrand(BandGrid(Eg, N, a + 1), x, Eg, Eb, gamma, mhcnp))
        * (BandGrid(Eg, N, a + 1) - BandGrid(Eg, N, a))) \div 20
  ELSE LET m == (a + b) \div 2
       IN BandTrapz(a, m, N, x, Eg, Eb, gamma, mhcnp)
            + BandTrapz(m + 1, b, N, x, Eg, Eb, gamma, mhcnp)

\* ucvsq * np.sqrt(Eb) * c for a contribution c
Scaled(ucvsq, Eb, c) == (((ucvsq * ISqrt(10000 * Eb)) \div 100) * (c \div 1000)) \div 1000

\* (mutant) the penalty is for mhcnp < 0 only
PenalisedSse_StrictlyNegative(curve, y, mhcnp) ==
  LET err == [j \in 1..Len(y) |-> curve[j] - y[j]]
      sum == Dot(err, err)
  IN IF mhcnp < 0 THEN 10 * sum ELSE sum

\* sse = np.sum(ErrorVector ** 2), ten times that if mhcnp <= 0
PenalisedSse(curve, y, mhcnp) ==
  LET err == [j \in 1..Len(y) |-> curve[j] - y[j]]
      sum == Dot(err, err)
  IN IF mhcnp <= 0 THEN 10 * sum ELSE sum

\* fsum2d(params, xdata, ydata) with params = [Eg, Eb, Gamma, ucvsq, mhcnp, q];
\* terms are the principal quantum numbers added to the exciton sum. A term that
\* is added with i - q = 0 divides by zero.
Fsum2d(params, x, y) ==
  LET Eg == params[1]
      Eb == params[2]
      gamma == params[3]
      ucvsq == params[4]
      mhcnp == params[5]
      q == params[6]
      N == 10 * Len(x)
      a1 == [j \in 1..Len(x) |-> ExcitonSum(1, 50, x[j], Eg, Eb, gamma, q)]
      band_contribution ==
        [j \in 1..Len(x) |-> BandTrapz(0, N - 2, N, x[j], Eg, Eb, gamma, mhcnp)]
      FittedCurve == [j \in 1..Len(x) |-> Scaled(ucvsq, Eb, band_contribution[j] + a1[j])]
  IN IF \E n \in ExcitonTerms(q) : 10 * n - q = 0
     THEN [kind |-> "ZeroDivisionError", terms |-> ExcitonTerms(q), sse |-> 0,
           FittedCurve |-> <<>>, exciton |-> <<>>, band |-> <<>>]
     ELSE [kind |-> "return", terms |-> ExcitonTerms(q),
           sse |-> PenalisedSse(FittedCurve, y, mhcnp),
           FittedCurve |-> FittedCurve,
           exciton |-> [j \in 1..Len(x) |-> Scaled(ucvsq, Eb, a1[j])],
           band |-> [j \in 1..Len(x) |-> Scaled(ucvsq, Eb, band_contribution[j])]]

(***************************** process_file: the stages *********************)
\* the axis sorted ascending (the axis is monotonic)
SortedAsc(x) == IF IsAscending(x) THEN x ELSE Reverse(x)

\* np.median(xdata)
Median(x) ==
  LET s == SortedAsc(x)
      n == Len(x)
  IN IF n % 2 = 1 THEN s[(n + 1) \div 2] ELSE (s[n \div 2] + s[n \div 2 + 1]) \div 2

\* 10 * np.percentile(xdata, q) for q = 10 * tenths (linear interpolation)
Percentile10(x, tenths) ==
  LET s == SortedAsc(x)
      pos == tenths * (Len(x) - 1)
      k == pos \div 10
      r == pos % 10
  IN IF r = 0 THEN 10 * s[k + 1] ELSE 10 * s[k + 1] + r * (s[k + 2] - s[k + 1])

\* (mutant) the scan runs from index 0 whatever the direction of the axis
DetectBandgap_ForwardOnly(x, cleaned) ==
  LET hits == {j \in 1..Len(x) : cleaned[j] > 10}
  IN IF hits = {} THEN Median(x) ELSE x[CHOOSE j \in hits : \A k \in hits : j <= k]

\* the first point, from the low-energy end, where cleaned_data > 0.01; else the median
DetectBandgap(x, cleaned) ==
  LET n == Len(x)
      hits == {j \in 1..n : cleaned[j] > 10}
  IN IF hits = {} THEN Median(x)
     ELSE IF IsAscending(x)
          THEN x[CHOOSE j \in hits : \A k \in hits : j <= k]
          ELSE x[CHOOSE j \in hits : \A k \in hits : j >= k]

\* (mutant) the start point taken from the defaults instead of self.start_point
DynamicStartPoint_NoCarryOver(sp, Eg0) ==
  <<Eg0, 5, 43, 3700, 60, 0>>

\* dynamic_start_point: Eg = initial_Eg, Eb = 50 meV, q = 0, the rest from self.start_point
DynamicStartPoint(sp, Eg0) == [sp EXCEPT ![1] = Eg0, ![2] = 5, ![6] = 0]

\* (mutant) the Eg window always 0.3 eV to the low side
DynamicLb_AlwaysWide(l, Eg0) == [l EXCEPT ![1] = Eg0 - 30]

\* dynamic_lb, dynamic_rb: Eg within 0.2 eV of initial_Eg (0.3 eV if that is empty)
DynamicLb(l, Eg0) ==
  IF Eg0 - 20 >= Eg0 + 20 THEN [l EXCEPT ![1] = Eg0 - 30] ELSE [l EXCEPT ![1] = Eg0 - 20]
DynamicRb(r, Eg0) ==
  IF Eg0 - 20 >= Eg0 + 20 THEN [r EXCEPT ![1] = Eg0 + 30] ELSE [r EXCEPT ![1] = Eg0 + 20]

\* prelim_mask: the 10th to 90th percentile of the axis
PrelimMask(x) ==
  [j \in 1..Len(x) |-> 10 * x[j] >= Percentile10(x, 1) /\ 10 * x[j] <= Percentile10(x, 9)]

\* the caller's min_energy / max_energy as a mask
UserMask(x, lo, hi) ==
  [j \in 1..Len(x) |-> (lo = None \/ x[j] >= lo[1]) /\ (hi = None \/ x[j] <= hi[1])]

\* (mutant) the caller's range is used however few points it holds
FinalFitMask_NoFallback(x, lo, hi) == UserMask(x, lo, hi)

\* fit_mask of the final fit: the caller's range, the full range if it holds
\* fewer than 10 points
FinalFitMask(x, lo, hi) ==
  IF CountTrue(UserMask(x, lo, hi)) < 10 THEN AllTrue(Len(x)) ELSE UserMask(x, lo, hi)

\* auto_range is not False
AutoRangeEnabled(ar) == ar # "False"

\* auto_mask: Eg +/- 0.5 eV, within the caller's range
AutoMask(x, Eg, lo, hi) ==
  MaskAnd([j \in 1..Len(x) |-> x[j] >= Eg - 50 /\ x[j] <= Eg + 50], UserMask(x, lo, hi))

\* (mutant) the refit runs from 10 points on
AutoRefit_AtLeast10(ar, am) == AutoRangeEnabled(ar) /\ CountTrue(am) >= 10

\* (mutant) the refit runs however few points auto_mask holds
AutoRefit_Always(ar, am) == AutoRangeEnabled(ar)

\* the refit runs when auto_mask holds more than 10 points
AutoRefit(ar, am) == AutoRangeEnabled(ar) /\ CountTrue(am) > 10

\* self.start_point after a dataset
NextStartPoint(sp, est) == est

\* (mutant) ss_tot taken about zero instead of about the mean
RSquared_Uncentered(s, ydata_fit) ==
  LET nss_tot == Len(ydata_fit) * Dot(ydata_fit, ydata_fit)
  IN IF nss_tot > 0 THEN <<nss_tot - Len(ydata_fit) * s, nss_tot>> ELSE <<0, 1>>

\* r_squared = 1 - sse / ss_tot if ss_tot > 0 else 0, as the fraction <<num, den>>;
\* ss_tot = sum((y - mean(y))^2) = (n * sum(y^2) - sum(y)^2) / n
RSquared(s, ydata_fit) ==
  LET n == Len(ydata_fit)
      nss_tot == n * Dot(ydata_fit, ydata_fit) - SumSeq(ydata_fit) * SumSeq(ydata_fit)
  IN IF nss_tot > 0 THEN <<nss_tot - n * s, nss_tot>> ELSE <<0, 1>>

\* a float that may be NaN
Num(v) == <<v>>
NaN == <<>>

\* np.log of an absorption value v > 0 (0.001 units), in 0.001 units:
\* ln(v / 1000) = log2(v) * ln 2 - ln 1000, with log2 taken down to an integer
RECURSIVE Log2Floor(_)
Log2Floor(v) == IF v < 2 THEN 0 ELSE 1 + Log2Floor(v \div 2)
Ln(v) == 693 * Log2Floor(v) - 6908

\* np.polyfit(x_fit, log_y, 1): the least-squares line (slope per eV and intercept,
\* 0.001 units); through a single point it is the least-norm solution of the
\* column-scaled system, slope = L / (2 x) and intercept = L / 2
PolyfitLine(x_fit, log_y) ==
  LET n == Len(x_fit)
      Sx == SumSeq(x_fit)
      Sy == SumSeq(log_y)
      D == n * Dot(x_fit, x_fit) - Sx * Sx
      N == n * Dot(x_fit, log_y) - Sx * Sy
      slope == (N \div D) * 100 + ((N % D) * 100) \div D
  IN IF n = 1
     THEN [slope |-> (log_y[1] * 50) \div x_fit[1], intersect |-> log_y[1] \div 2]
     ELSE [slope |-> slope, intersect |-> (Sy - (slope * Sx) \div 100) \div n]

\* (mutant) the window ends 9 indices after the crossing
UrbachEnd_Nine(index, n) == Min(index + 9, n)

\* start_idx and end_idx of the window xdata[start_idx:end_idx] (0-based)
UrbachStart(index, n) == Min(index + 2, n - 1)
UrbachEnd(index, n) == Min(index + 10, n)

\* what calculate_urbach_energy returns or raises; window is the 0-based pair
\* <<start_idx, end_idx>> (<<>> when none was taken) and log tells whether np.log
\* and np.polyfit were called
UrbachResult(k, slope, intersect, fitted, window, log) ==
  [kind |-> k, slope |-> slope, intersect |-> intersect, fitted_urbach |-> fitted,
   window |-> window, log |-> log]

\* return 0, 0, np.zeros(len(xdata))
UrbachFallback(n) ==
  UrbachResult("return", Num(0), Num(0), [j \in 1..n |-> Num(0)], <<>>, FALSE)

\* calculate_urbach_energy. The logarithm of an absorption <= 0 is NaN or -inf,
\* and np.polyfit on such values gives NaN coefficients or raises LinAlgError,
\* depending on the LAPACK build: both outcomes are in the set.
CalculateUrbach(x, y, Eb, Eg) ==
  LET n == Len(x)
      threshold == IF Eb - Eg < 0 THEN Eg - Eb ELSE Eb - Eg
      indices == {j \in 1..n : x[j] < threshold}
      index == (CHOOSE j \in indices : \A k \in indices : j <= k) - 1
      start_idx == UrbachStart(index, n)
      end_idx == UrbachEnd(index, n)
      x_fit == SubSeq(x, start_idx + 1, end_idx)
      y_fit == SubSeq(y, start_idx + 1, end_idx)
      log_y == [j \in 1..Len(y_fit) |-> Ln(y_fit[j])]
      c == PolyfitLine(x_fit, log_y)
      w == <<start_idx, end_idx>>
  IN IF indices = {} THEN {UrbachFallback(n)}
     ELSE IF end_idx <= start_idx THEN {UrbachFallback(n)}
     ELSE IF \A j \in 1..Len(y_fit) : y_fit[j] > 0
     THEN {UrbachResult("return", Num(c.slope), Num(c.intersect),
             [j \in 1..n |-> Num(c.intersect + (c.slope * x[j]) \div 100)], w, TRUE)}
     ELSE {UrbachResult("return", NaN, NaN, [j \in 1..n |-> NaN], w, TRUE),
           UrbachResult("LinAlgError", NaN, NaN, <<>>, w, TRUE)}

(***************************** process_file: the loader *********************)
\* A line of text is a sequence of one-character strings, a file a sequence of
\* lines. Numbers are written in the units of the model, as runs of digits.
DigitChars == <<"0", "1", "2", "3", "4", "5", "6", "7", "8", "9">>
IsDigit(c) == \E d \in 1..10 : DigitChars[d] = c
DigitValue(c) == (CHOOSE d \in 1..10 : DigitChars[d] = c) - 1

NonEmpty(t) == t # <<>>

\* str.strip()
RECURSIVE LStrip(_)
LStrip(l) == IF l # <<>> /\ l[1] = " " THEN LStrip(Tail(l)) ELSE l
RECURSIVE RStrip(_)
RStrip(l) == IF l # <<>> /\ l[Len(l)] = " " THEN RStrip(SubSeq(l, 1, Len(l) - 1)) ELSE l
Strip(l) == RStrip(LStrip(l))

\* str.split(d): the pieces between the occurrences of d, empty ones included
RECURSIVE SplitOn(_, _)
SplitOn(l, d) ==
  IF \A j \in 1..Len(l) : l[j] # d THEN <<l>>
  ELSE LET k == CHOOSE j \in 1..Len(l) : l[j] = d /\ \A m \in 1..(j - 1) : l[m] # d
       IN <<SubSeq(l, 1, k - 1)>> \o SplitOn(SubSeq(l, k + 1, Len(l)), d)

\* str.split(): the pieces between runs of whitespace
SplitWhitespace(l) == SelectSeq(SplitOn(l, " "), NonEmpty)

\* the tokens of a line: [p.strip() for p in line.split(delimiter)] or line.split()
Parts(l, delimiter) ==
  IF delimiter # None
  THEN LET pieces == SplitOn(l, delimiter[1])
       IN [k \in 1..Len(pieces) |-> Strip(pieces[k])]
  ELSE SplitWhitespace(l)

\* float(token) does not raise ValueError
IsFloat(tok) == tok # <<>> /\ \A j \in 1..Len(tok) : IsDigit(tok[j])

\* float(token)
RECURSIVE FloatValue(_)
FloatValue(tok) ==
  IF Len(tok) = 1 THEN DigitValue(tok[1])
  ELSE 10 * FloatValue(SubSeq(tok, 1, Len(tok) - 1)) + DigitValue(tok[Len(tok)])

\* delimiter = ',' if file_ext == '.csv' else None
Delimiter(ext) == IF ext = ".csv" THEN Some(",") ELSE None

\* (mutant) a line starts the data as soon as its first token is a number
IsDataStart_FirstTokenOnly(line, delimiter) ==
  LET l == Strip(line)
      parts == Parts(l, delimiter)
  IN l # <<>> /\ l[1] # "#" /\ Len(parts) >= 2 /\ IsFloat(parts[1])

\* the test the loop over all_lines makes on a line
IsDataStart(line, delimiter) ==
  LET l == Strip(line)
      parts == Parts(l, delimiter)
  IN l # <<>> /\ l[1] # "#" /\ Len(parts) >= 2 /\ IsFloat(parts[1]) /\ IsFloat(parts[2])

\* data_start_idx (0-based): the first such line, 0 when the loop never breaks
DataStartIdx(lines, delimiter) ==
  LET starts == {k \in 1..Len(lines) : IsDataStart(lines[k], delimiter)}
  IN IF starts = {} THEN 0
     ELSE (CHOOSE k \in starts : \A m \in starts : k <= m) - 1

\* data_lines: the stripped non-blank lines from data_start_idx on
DataLines(lines, start) ==
  SelectSeq([k \in 1..(Len(lines) - start) |-> Strip(lines[start + k])], NonEmpty)

\* np.loadtxt drops what follows a '#'
StripComment(l) ==
  IF \A j \in 1..Len(l) : l[j] # "#" THEN l
  ELSE SubSeq(l, 1, (CHOOSE j \in 1..Len(l) : l[j] = "#" /\ \A m \in 1..(j - 1) : l[m] # "#") - 1)

Loaded(x, cols) == [kind |-> "return", xdata |-> x, raw |-> cols]
LoadFailed(e) == [kind |-> e, xdata |-> <<>>, raw |-> <<>>]

\* raw = np.loadtxt(StringIO(data_string), delimiter) and xdata = raw[:, 0]:
\* ValueError for a token that is no number or for rows of different lengths;
\* a table of no row, one row or one column comes back with fewer than two
\* dimensions and raw[:, 0] raises IndexError
LoadTxt(lines, delimiter) ==
  LET rows == SelectSeq([k \in 1..Len(lines) |-> Strip(StripComment(lines[k]))], NonEmpty)
      toks == [k \in 1..Len(rows) |-> Parts(rows[k], delimiter)]
      ncols == Len(toks[1])
  IN IF \E k \in 1..Len(rows) : \E t \in 1..Len(toks[k]) : ~IsFloat(toks[k][t])
     THEN LoadFailed("ValueError")
     ELSE IF \E k \in 1..Len(rows) : Len(toks[k]) # ncols
     THEN LoadFailed("ValueError")
     ELSE IF Len(rows) < 2 \/ ncols < 2
     THEN LoadFailed("IndexError")
     ELSE Loaded([k \in 1..Len(rows) |-> FloatValue(toks[k][1])],
                 [c \in 1..(ncols - 1) |->
                    [k \in 1..Len(rows) |-> FloatValue(toks[k][c + 1])]])

(***************************** inputs ***************************************)
DefaultStart == <<262, 5, 43, 3700, 60, 0>>
DefaultLb == <<254, 1, 0, 1, 0, 0>>
DefaultRb == <<268, 20, 200, 100000, 999, 15>>

Fitmodes == {0, 1, 2, 3}

\* an energy axis of n points from `first` in steps of `step`, either direction
Axis(first, step, n, asc) ==
  IF asc THEN [j \in 1..n |-> first + step * (j - 1)]
  ELSE [j \in 1..n |-> first + step * (n - j)]

\* absorption columns: an absorption edge over a small background, a flat
\* spectrum, and no absorption at all
EdgeCol(x, edge) == [j \in 1..Len(x) |-> IF x[j] >= edge THEN 205 + (x[j] - edge) ELSE 5]
FlatCol(x) == [j \in 1..Len(x) |-> 50]
ZeroCol(x) == [j \in 1..Len(x) |-> 0]

\* the tables process_file is run on: the eV axis and the absorption columns
Files ==
  LET a == Axis(200, 10, LenMid, TRUE)
      d == Axis(200, 10, LenMid, FALSE)
      sa == Axis(200, 10, LenSmall, TRUE)
      sd == Axis(200, 10, LenSmall, FALSE)
  IN { [xdata |-> a, raw |-> <<EdgeCol(a, 250), FlatCol(a)>>],
       [xdata |-> d, raw |-> <<EdgeCol(d, 260), ZeroCol(d)>>],
       [xdata |-> sa, raw |-> <<EdgeCol(sa, 230)>>],
       [xdata |-> sd, raw |-> <<FlatCol(sd)>>] }

\* a number as it is written in a file
RECURSIVE Digits(_)
Digits(v) == IF v < 10 THEN <<DigitChars[v + 1]>>
             ELSE Digits(v \div 10) \o <<DigitChars[(v % 10) + 1]>>

\* row j of a table as a line of text, the fields joined by sep
RECURSIVE RowText(_, _, _, _)
RowText(f, j, c, sep) ==
  IF c = 0 THEN Digits(f.xdata[j])
  ELSE RowText(f, j, c - 1, sep) \o sep \o Digits(f.raw[c][j])
TableText(f, sep) == [j \in 1..Len(f.xdata) |-> RowText(f, j, Len(f.raw), sep)]

\* what a file may hold above its table: nothing; a comment; a title and a blank
\* line; a line whose first token alone is a number; a line of a single number
Headers ==
  { <<>>,
    << <<"#", " ", "x">> >>,
    << <<"x", " ", "x">>, <<" ">> >>,
    << <<"1", " ", "x">>, <<"#", "1", " ", "1">> >>,
    << <<"7">>, <<"x", ",", "1", ",", "1">> >> }

\* the files process_file is run on: every table as a .txt file; the short table
\* under each header, as .txt and as .csv; tables written with the delimiter of
\* the other extension; files of
\* a header alone; a file of a single column; a table with a comment line and a
\* blank line inside it, and one with a title inside it
TextFiles ==
  LET small == CHOOSE f \in Files : Len(f.xdata) = LenSmall /\ IsAscending(f.xdata)
      body == TableText(small, <<" ">>)
  IN { [file_ext |-> ".txt", all_lines |-> TableText(f, <<" ">>)] : f \in Files } \cup
     { [file_ext |-> ".txt", all_lines |-> h \o body] : h \in Headers } \cup
     { [file_ext |-> ".csv", all_lines |-> h \o TableText(small, <<",", " ">>)] :
         h \in Headers } \cup
     { [file_ext |-> ".csv", all_lines |-> body],
       [file_ext |-> ".txt", all_lines |-> TableText(small, <<",">>)] } \cup
     { [file_ext |-> e, all_lines |-> h] : e \in {".txt", ".csv"}, h \in Headers } \cup
     { [file_ext |-> ".txt", all_lines |-> <<Digits(200), Digits(210), Digits(220)>>],
       [file_ext |-> ".txt",
        all_lines |-> <<body[1], <<"#", " ", "x">>, <<>>>> \o Tail(body)],
       [file_ext |-> ".txt", all_lines |-> <<body[1], <<"x", " ", "x">>>> \o Tail(body)] }

\* T as the caller gives it (1-indexed), None for all datasets
TArgs == {None, Some(<<1>>), Some(<<2, 1, 2, 5>>), Some(<<0>>)}

\* <<min_energy, max_energy>>
EnergyRanges == {<<None, None>>, <<Some(220), None>>, <<None, Some(300)>>, <<Some(230), None>>}

AutoRangeArgs == {"None", "True", "False"}

\* the axes and contexts fit_baseline is called with directly
BaselineAxes ==
  { Axis(200, 10, n, asc) : n \in {LenSmall, LenMid}, asc \in BOOLEAN } \cup
  { Axis(100, 1, n, asc) : n \in {LenBig, LenHuge}, asc \in BOOLEAN } \cup
  { <<100>> }
EgArgs == {None, Some(103), Some(130), Some(245)}
EbArgs == {None, Some(0), Some(5), Some(20)}

\* the axes, columns and parameters calculate_urbach_energy is called with directly
UrbachAxes == { Axis(200, 10, n, asc) : n \in {LenSmall, LenMid}, asc \in BOOLEAN }
UrbachCols(x) == {EdgeCol(x, 250), ZeroCol(x)}
UrbachEgArgs == {205, 210, 245, 330}
UrbachEbArgs == {5, 20}

\* the parameters, axis and data fsum2d is called with directly
FsumParams ==
  { <<262, 5, gamma, 100, mhcnp, q>> :
      gamma \in {0, 43}, mhcnp \in {-60, 0, 60}, q \in {0, 5, 10, 15, 20, 500} }
FsumAxis == Axis(250, 10, LenFsum, TRUE)
FsumCols == {ZeroCol(FsumAxis), FlatCol(FsumAxis)}

(***************************** the caller ***********************************)
Unset == <<>>

LocalsUnset ==
  /\ initial_baseline' = Unset /\ initial_baseline_mask' = Unset /\ initial_Eg' = Unset
  /\ dynamic_start_point' = Unset /\ dynamic_lb' = Unset /\ dynamic_rb' = Unset
  /\ prelim_estimates' = Unset /\ baseline' = Unset /\ baseline_mask' = Unset
  /\ fit_mask' = Unset /\ estimates' = Unset /\ sse' = Unset /\ calls' = <<>>

RunCleared ==
  /\ xdata' = <<>> /\ raw' = <<>> /\ T' = <<>> /\ T_arg' = None /\ min_energy' = None
  /\ file_ext' = "" /\ all_lines' = <<>> /\ data_start_idx' = 0 /\ data_lines' = <<>>
  /\ max_energy' = None /\ auto_range' = "None" /\ i' = 0
  /\ LocalsUnset
  /\ fitresult' = <<>> /\ quality' = <<>> /\ slopes' = <<>> /\ intersects' = <<>>
  /\ processed_T' = <<>> /\ fit_masks' = <<>> /\ baseline_masks' = <<>>
  /\ fittedbaseline' = <<>> /\ cleandata' = <<>> /\ fittedurbach' = <<>>

Init ==
  /\ fitmode \in Fitmodes /\ start_point = DefaultStart
  /\ lb = DefaultLb /\ rb = DefaultRb
  /\ pc = "idle" /\ ret = [kind |-> "none"]
  /\ xdata = <<>> /\ raw = <<>> /\ T = <<>> /\ T_arg = None /\ min_energy = None
  /\ file_ext = "" /\ all_lines = <<>> /\ data_start_idx = 0 /\ data_lines = <<>>
  /\ max_energy = None /\ auto_range = "None" /\ i = 0
  /\ initial_baseline = Unset /\ initial_baseline_mask = Unset /\ initial_Eg = Unset
  /\ dynamic_start_point = Unset /\ dynamic_lb = Unset /\ dynamic_rb = Unset
  /\ prelim_estimates = Unset /\ baseline = Unset /\ baseline_mask = Unset
  /\ fit_mask = Unset /\ estimates = Unset /\ sse = Unset /\ calls = <<>>
  /\ fitresult = <<>> /\ quality = <<>> /\ slopes = <<>> /\ intersects = <<>>
  /\ processed_T = <<>> /\ fit_masks = <<>> /\ baseline_masks = <<>>
  /\ fittedbaseline = <<>> /\ cleandata = <<>> /\ fittedurbach = <<>>

\* FSumFitter(fitmode = m): a new fitter takes the place of the old one
NewFitter ==
  /\ pc = "idle"
  /\ \E m \in Fitmodes : fitmode' = m
  /\ start_point' = DefaultStart /\ lb' = DefaultLb /\ rb' = DefaultRb
  /\ UNCHANGED <<pc, ret, argVars, i, localVars, resultVars>>

\* fitter.fit_baseline(xdata, ydata, Eg, Eb), called directly
CallFitBaseline ==
  /\ pc = "idle"
  /\ \E x \in BaselineAxes, Eg \in EgArgs, Eb \in EbArgs :
       ret' = [kind |-> "fit_baseline", xdata |-> x, Eg |-> Eg, Eb |-> Eb,
               result |-> FitBaseline(fitmode, x, FlatCol(x), Eg, Eb)]
  /\ pc' = "returned"
  /\ UNCHANGED <<fitterVars, argVars, i, localVars, resultVars>>

\* fitter.calculate_urbach_energy(xdata, ydata, Eb, Eg), called directly
CallUrbach ==
  /\ pc = "idle"
  /\ \E x \in UrbachAxes, Eg \in UrbachEgArgs, Eb \in UrbachEbArgs :
       \E y \in UrbachCols(x) :
         \E u \in CalculateUrbach(x, y, Eb, Eg) :
           ret' = [kind |-> "urbach", xdata |-> x, ydata |-> y, Eg |-> Eg, Eb |-> Eb,
                   result |-> u]
  /\ pc' = "returned"
  /\ UNCHANGED <<fitterVars, argVars, i, localVars, resultVars>>

\* fsum2d(params, xdata, ydata), called directly
CallFsum2d ==
  /\ pc = "idle"
  /\ \E params \in FsumParams, y \in FsumCols :
       ret' = [kind |-> "fsum2d", params |-> params, xdata |-> FsumAxis, ydata |-> y,
               result |-> Fsum2d(params, FsumAxis, y)]
  /\ pc' = "returned"
  /\ UNCHANGED <<fitterVars, argVars, i, localVars, resultVars>>

\* fitter.process_file(filename, ...): the lines of the file are read, the data
\* rows are found and loaded; an exception of np.loadtxt or of raw[:, 0] leaves
\* process_file
ProcessFile ==
  /\ pc = "idle"
  /\ \E f \in TextFiles :
       LET delimiter == Delimiter(f.file_ext)
           start == DataStartIdx(f.all_lines, delimiter)
           lines == DataLines(f.all_lines, start)
           l == LoadTxt(lines, delimiter)
       IN \/ /\ l.kind = "return"
             /\ file_ext' = f.file_ext /\ all_lines' = f.all_lines
             /\ data_start_idx' = start /\ data_lines' = lines
             /\ xdata' = l.xdata /\ raw' = l.raw
             /\ pc' = "loaded"
             /\ UNCHANGED <<fitterVars, ret, T, T_arg, min_energy, max_energy, auto_range, i,
                            localVars, resultVars>>
          \/ /\ l.kind # "return"
             /\ ret' = [kind |-> l.kind, file_ext |-> f.file_ext, all_lines |-> f.all_lines,
                        data_start_idx |-> start, data_lines |-> lines]
             /\ RunCleared
             /\ pc' = "returned"
             /\ UNCHANGED fitterVars

\* process_file goes on with the table: T (an argument of the call, first read
\* here) is made 0-indexed and the result arrays are zeroed; the text is not read
\* again
Setup ==
  /\ pc = "loaded"
  /\ \E t \in TArgs, range \in EnergyRanges, ar \in AutoRangeArgs :
       /\ T_arg' = t
       /\ T' = IF t = None THEN [k \in 1..Len(raw) |-> k - 1]
               ELSE [k \in 1..Len(t[1]) |-> t[1][k] - 1]
       /\ min_energy' = range[1] /\ max_energy' = range[2] /\ auto_range' = ar
  /\ file_ext' = "" /\ all_lines' = <<>> /\ data_start_idx' = 0 /\ data_lines' = <<>>
  /\ fittedbaseline' = [k \in 1..Len(raw) |-> Zeros(Len(xdata))]
  /\ cleandata' = [k \in 1..Len(raw) |-> Zeros(Len(xdata))]
  /\ fittedurbach' = [k \in 1..Len(raw) |-> [j \in 1..Len(xdata) |-> Num(0)]]
  /\ i' = 0 /\ LocalsUnset
  /\ fitresult' = <<>> /\ quality' = <<>> /\ slopes' = <<>> /\ intersects' = <<>>
  /\ processed_T' = <<>> /\ fit_masks' = <<>> /\ baseline_masks' = <<>>
  /\ pc' = "loop"
  /\ UNCHANGED <<fitterVars, ret, xdata, raw>>

(***************************** process_file: the loop ***********************)
\* (mutant) the columns are looked up in T without the shift to 0-indexed
Remaining_Unshifted == {k \in (i + 1)..Len(raw) : \E t \in 1..Len(T) : T[t] = k}

\* the selected columns still to come: i in range(1, ncols) with (i - 1) in T
Remaining == {k \in (i + 1)..Len(raw) : \E t \in 1..Len(T) : T[t] = k - 1}

\* the loop moves on to the next selected dataset
SelectDataset ==
  /\ pc = "loop" /\ Remaining # {}
  /\ i' = CHOOSE k \in Remaining : \A m \in Remaining : k <= m
  /\ LocalsUnset
  /\ pc' = "initial_baseline"
  /\ UNCHANGED <<fitterVars, ret, argVars, resultVars>>

\* the loop is over: the results dictionary is returned
ReturnResults ==
  /\ pc = "loop" /\ Remaining = {}
  /\ ret' = [kind |-> "results", xdata |-> xdata, raw |-> raw,
             fitresult |-> fitresult, quality |-> quality, slopes |-> slopes,
             intersects |-> intersects, T |-> processed_T, fit_masks |-> fit_masks,
             baseline_masks |-> baseline_masks, fittedbaseline |-> fittedbaseline,
             cleandata |-> cleandata, fittedurbach |-> fittedurbach]
  /\ RunCleared
  /\ pc' = "returned"
  /\ UNCHANGED fitterVars

\* the caller has the value a call returned (or the exception it raised) and goes on
Resume ==
  /\ pc = "returned"
  /\ pc' = "idle" /\ ret' = [kind |-> "none"]
  /\ UNCHANGED <<fitterVars, argVars, i, localVars, resultVars>>

\* Step 0: the initial baseline, without Eg or Eb
InitialBaselineOf(mode, x, y) ==
  IF mode = 0 THEN Returned(Zeros(Len(x)), AllFalse(Len(x)))
  ELSE FitBaseline(mode, x, y, None, None)

InitialBaseline ==
  /\ pc = "initial_baseline"
  /\ LET r == InitialBaselineOf(fitmode, xdata, raw[i])
     IN \/ /\ r.kind = "return"
           /\ initial_baseline' = r.baseline
           /\ initial_baseline_mask' = r.mask
           /\ pc' = "bandgap_detect"
           /\ UNCHANGED <<fitterVars, ret, argVars, i, initial_Eg, dynamic_start_point,
                          dynamic_lb, dynamic_rb, prelim_estimates, baseline,
                          baseline_mask, fit_mask, estimates, sse, calls, resultVars>>
        \/ /\ r.kind # "return"       \* the exception leaves process_file
           /\ ret' = [kind |-> r.kind]
           /\ RunCleared
           /\ pc' = "returned"
           /\ UNCHANGED fitterVars

\* Step 1: the bandgap from the cleaned data
CleanedForDetect(mode, y, b0) == IF mode = 0 THEN y ELSE Minus(y, b0)

BandgapDetect ==
  /\ pc = "bandgap_detect"
  /\ initial_Eg' = DetectBandgap(xdata, CleanedForDetect(fitmode, raw[i], initial_baseline))
  /\ pc' = "dynamic_bounds"
  /\ UNCHANGED <<fitterVars, ret, argVars, i, initial_baseline, initial_baseline_mask,
                 dynamic_start_point,
                 dynamic_lb, dynamic_rb, prelim_estimates, baseline, baseline_mask,
                 fit_mask, estimates, sse, calls, resultVars>>

\* the start point and the bounds of this dataset's fits
DynamicBounds ==
  /\ pc = "dynamic_bounds"
  /\ dynamic_start_point' = DynamicStartPoint(start_point, initial_Eg)
  /\ dynamic_lb' = DynamicLb(lb, initial_Eg)
  /\ dynamic_rb' = DynamicRb(rb, initial_Eg)
  /\ pc' = "prelim_fit"
  /\ UNCHANGED <<fitterVars, ret, argVars, i, initial_baseline, initial_baseline_mask,
                 initial_Eg,
                 prelim_estimates, baseline, baseline_mask, fit_mask, estimates, sse,
                 calls, resultVars>>

\* Step 2: the preliminary fit on the data less the initial baseline
PrelimFit ==
  /\ pc = "prelim_fit"
  /\ LET mask == PrelimMask(xdata)
         ys == Minus(raw[i], initial_baseline)
     IN \E o \in FitData(Compress(xdata, mask), Compress(ys, mask),
                         dynamic_start_point, dynamic_lb, dynamic_rb) :
          \/ /\ o.kind = "return"
             /\ prelim_estimates' = o.estimates
             /\ calls' = Append(calls, FitCall("prelim", mask, ys, dynamic_start_point,
                                               dynamic_lb, dynamic_rb, o))
             /\ pc' = "baseline_refine"
             /\ UNCHANGED <<fitterVars, ret, argVars, i, initial_baseline,
                            initial_baseline_mask, initial_Eg, dynamic_start_point,
                            dynamic_lb, dynamic_rb, baseline, baseline_mask,
                            fit_mask, estimates, sse, resultVars>>
          \/ /\ o.kind # "return"
             /\ ret' = [kind |-> o.kind]
             /\ RunCleared
             /\ pc' = "returned"
             /\ UNCHANGED fitterVars

\* Steps 3 and 4: the baseline again, with the preliminary Eg and Eb, and its removal
RefinedBaselineOf(mode, x, y, est) ==
  IF mode = 0 THEN Returned(Zeros(Len(x)), AllFalse(Len(x)))
  ELSE FitBaseline(mode, x, y, Some(est[1]), Some(est[2]))

BaselineRefine ==
  /\ pc = "baseline_refine"
  /\ LET r == RefinedBaselineOf(fitmode, xdata, raw[i], prelim_estimates)
     IN \/ /\ r.kind = "return"
           /\ baseline' = r.baseline
           /\ baseline_mask' = r.mask
           /\ fittedbaseline' = [fittedbaseline EXCEPT ![i] = r.baseline]
           /\ cleandata' = [cleandata EXCEPT ![i] = Minus(raw[i], r.baseline)]
           /\ pc' = "final_fit"
           /\ UNCHANGED <<fitterVars, ret, argVars, i, initial_baseline, initial_baseline_mask,
                 initial_Eg,
                          dynamic_start_point, dynamic_lb, dynamic_rb, prelim_estimates,
                          fit_mask, estimates, sse, calls, fitresult, quality, slopes,
                          intersects, processed_T, fit_masks, baseline_masks,
                          fittedurbach>>
        \/ /\ r.kind # "return"
           /\ ret' = [kind |-> r.kind]
           /\ RunCleared
           /\ pc' = "returned"
           /\ UNCHANGED fitterVars

\* Steps 5 and 6: the final fit on the cleaned data
FinalFit ==
  /\ pc = "final_fit"
  /\ LET mask == FinalFitMask(xdata, min_energy, max_energy)
         ydata == cleandata[i]
     IN \E o \in FitData(Compress(xdata, mask), Compress(ydata, mask),
                         prelim_estimates, dynamic_lb, dynamic_rb) :
          \/ /\ o.kind = "return"
             /\ fit_mask' = mask
             /\ estimates' = o.estimates
             /\ sse' = o.sse
             /\ calls' = Append(calls, FitCall("final", mask, ydata, prelim_estimates,
                                               dynamic_lb, dynamic_rb, o))
             /\ pc' = "auto_refine"
             /\ UNCHANGED <<fitterVars, ret, argVars, i, initial_baseline,
                            initial_baseline_mask, initial_Eg, dynamic_start_point,
                            dynamic_lb, dynamic_rb, prelim_estimates, baseline,
                            baseline_mask, resultVars>>
          \/ /\ o.kind # "return"
             /\ ret' = [kind |-> o.kind]
             /\ RunCleared
             /\ pc' = "returned"
             /\ UNCHANGED fitterVars

\* the auto-range refinement: one more fit within 0.5 eV of the fitted Eg
AutoRefine ==
  /\ pc = "auto_refine"
  /\ LET mask == AutoMask(xdata, estimates[1], min_energy, max_energy)
         ydata == cleandata[i]
     IN \/ /\ AutoRefit(auto_range, mask)
           /\ \E o \in FitData(Compress(xdata, mask), Compress(ydata, mask),
                               estimates, dynamic_lb, dynamic_rb) :
                \/ /\ o.kind = "return"
                   /\ estimates' = o.estimates
                   /\ sse' = o.sse
                   /\ calls' = Append(calls, FitCall("auto", mask, ydata, estimates,
                                                     dynamic_lb, dynamic_rb, o))
                   /\ fit_mask' = mask
                   /\ pc' = "record"
                   /\ UNCHANGED <<fitterVars, ret, argVars, i, initial_baseline,
                                  initial_baseline_mask, initial_Eg, dynamic_start_point,
                                  dynamic_lb, dynamic_rb, prelim_estimates, baseline,
                                  baseline_mask, resultVars>>
                \/ /\ o.kind # "return"
                   /\ ret' = [kind |-> o.kind]
                   /\ RunCleared
                   /\ pc' = "returned"
                   /\ UNCHANGED fitterVars
        \/ /\ ~AutoRefit(auto_range, mask)
           /\ pc' = "record"
           /\ UNCHANGED <<fitterVars, ret, argVars, i, localVars, resultVars>>

\* (mutant) the processed dataset is listed by its 0-indexed number
Record_ZeroIndexed ==
  /\ pc = "record"
  /\ start_point' = NextStartPoint(start_point, estimates)
  /\ \E u \in CalculateUrbach(xdata, cleandata[i], estimates[2], estimates[1]) :
       \/ /\ u.kind = "return"
          /\ fitresult' = Append(fitresult, estimates)
          /\ processed_T' = Append(processed_T, i - 1)
          /\ quality' = Append(quality, RSquared(sse, Compress(cleandata[i], fit_mask)))
          /\ slopes' = Append(slopes, u.slope)
          /\ intersects' = Append(intersects, u.intersect)
          /\ fittedurbach' = [fittedurbach EXCEPT ![i] = u.fitted_urbach]
          /\ fit_masks' = Append(fit_masks, fit_mask)
          /\ baseline_masks' = Append(baseline_masks, baseline_mask)
          /\ pc' = "loop"
          /\ UNCHANGED <<fitmode, lb, rb, ret, argVars, i, localVars, fittedbaseline,
                         cleandata>>
       \/ /\ u.kind # "return"
          /\ ret' = [kind |-> u.kind]
          /\ RunCleared
          /\ pc' = "returned"
          /\ UNCHANGED <<fitmode, lb, rb>>

\* the seed of the next dataset, R^2 on the fit mask, the Urbach tail, the lists
Record ==
  /\ pc = "record"
  /\ start_point' = NextStartPoint(start_point, estimates)
  /\ \E u \in CalculateUrbach(xdata, cleandata[i], estimates[2], estimates[1]) :
       \/ /\ u.kind = "return"
          /\ fitresult' = Append(fitresult, estimates)
          /\ processed_T' = Append(processed_T, i)
          /\ quality' = Append(quality, RSquared(sse, Compress(cleandata[i], fit_mask)))
          /\ slopes' = Append(slopes, u.slope)
          /\ intersects' = Append(intersects, u.intersect)
          /\ fittedurbach' = [fittedurbach EXCEPT ![i] = u.fitted_urbach]
          /\ fit_masks' = Append(fit_masks, fit_mask)
          /\ baseline_masks' = Append(baseline_masks, baseline_mask)
          /\ pc' = "loop"
          /\ UNCHANGED <<fitmode, lb, rb, ret, argVars, i, localVars, fittedbaseline,
                         cleandata>>
       \/ /\ u.kind # "return"
          /\ ret' = [kind |-> u.kind]
          /\ RunCleared
          /\ pc' = "returned"
          /\ UNCHANGED <<fitmode, lb, rb>>

Next ==
  \/ NewFitter
  \/ CallFitBaseline
  \/ CallUrbach
  \/ ProcessFile
  \/ Setup
  \/ SelectDataset
  \/ ReturnResults
  \/ Resume
  \/ InitialBaseline
  \/ BandgapDetect
  \/ DynamicBounds
  \/ PrelimFit
  \/ BaselineRefine
  \/ FinalFit
  \/ AutoRefine
  \/ Record

Spec == Init /\ [][Next]_vars

\* fsum2d on its own: the calls of the function and nothing else
NextFsum ==
  \/ CallFsum2d
  \/ Resume

SpecFsum == Init /\ [][NextFsum]_vars

(***************************** the claims ***********************************)
Last(q) == q[Len(q)]

\* a dataset is being processed and its preliminary fit has been made
InDataset == Len(calls) >= 1

\* the dataset in hand is not yet in the result lists
BeforeRecord == pc \in {"baseline_refine", "final_fit", "auto_refine", "record"}

\* C1 (state part): the preliminary fit of every dataset starts from Eg = the
\* dataset's own initial_Eg, Eb = 0.050 and q = 0, and from the Gamma, ucvsq and
\* mhcnp that the dataset processed just before it in the same run ended with.
C1_Seed ==
  InDataset =>
    /\ calls[1].stage = "prelim"
    /\ calls[1].start[1] = initial_Eg
    /\ calls[1].start[2] = 5
    /\ calls[1].start[6] = 0
    /\ (BeforeRecord /\ fitresult # <<>>) =>
          \A k \in 3..5 : calls[1].start[k] = Last(fitresult)[k]

\* C1 (step part): within a run self.start_point changes in one step only, the one
\* that follows the dataset's last fit and precedes the next dataset, and there it
\* becomes the estimates of the last fit made.
C1_Update ==
  (pc # "idle") =>
    IF pc = "record"
    THEN pc' \in {"loop", "returned"} /\ start_point' = Last(calls).estimates
    ELSE start_point' = start_point

\* C1: warm-start threading across the datasets of one process_file run.
C1_WarmStart == [](C1_Seed) /\ [][C1_Update]_vars

\* C1 witness: the second dataset of a run was started from what the first ended
\* with, which is not the default seed.
C1_Witness ==
  /\ BeforeRecord /\ Len(fitresult) = 1
  /\ calls[1].start[3] = fitresult[1][3]
  /\ calls[1].start[3] # 43

\* C2: the first dataset of every run starts from the default Gamma = 0.043,
\* ucvsq = 37 and mhcnp = 0.060, whatever ran before.
C2_FirstSeedIsDefault ==
  (BeforeRecord /\ fitresult = <<>>) =>
     /\ calls[1].start[3] = 43
     /\ calls[1].start[4] = 3700
     /\ calls[1].start[5] = 60

MaskSet(m) == {j \in 1..Len(m) : m[j]}

\* the points within the caller's min_energy / max_energy
InUserRange ==
  {j \in 1..Len(xdata) : /\ (min_energy = None \/ xdata[j] >= min_energy[1])
                         /\ (max_energy = None \/ xdata[j] <= max_energy[1])}

\* the points within 0.5 eV of Eg and within the caller's range
InAutoRange(Eg) == {j \in InUserRange : xdata[j] >= Eg - 50 /\ xdata[j] <= Eg + 50}

\* the dataset in hand has gone through the auto-range stage
AfterAutoRefine == Len(calls) >= 2 /\ pc \in {"record", "loop"}

\* C3: unless auto_range is False, when the points within 0.5 eV of the final
\* fit's Eg (and within the caller's range) number more than 10, exactly one more
\* fit is made on them from the final fit's estimates and its estimates, sse and
\* mask are the ones kept and reported; otherwise the final fit's are.
C3_AutoRange ==
  AfterAutoRefine =>
    /\ IF auto_range # "False" /\ Cardinality(InAutoRange(calls[2].estimates[1])) > 10
       THEN /\ Len(calls) = 3
            /\ calls[3].stage = "auto"
            /\ MaskSet(calls[3].mask) = InAutoRange(calls[2].estimates[1])
            /\ calls[3].start = calls[2].estimates
            /\ calls[3].ys = cleandata[i]
       ELSE Len(calls) = 2
    /\ estimates = Last(calls).estimates
    /\ sse = Last(calls).sse
    /\ fit_mask = Last(calls).mask
    /\ pc = "loop" => /\ Last(fitresult) = Last(calls).estimates
                      /\ Last(fit_masks) = Last(calls).mask

\* C3 witness: the refit ran and ended elsewhere than the final fit.
C3_Witness ==
  /\ AfterAutoRefine /\ pc = "loop" /\ Len(calls) = 3
  /\ calls[3].estimates # calls[2].estimates
  /\ calls[3].mask # calls[2].mask
  /\ Last(fitresult) = calls[3].estimates

\* C4: the final fit runs on the points within the caller's range, on every point
\* when that range holds fewer than 10, so never on fewer than 10 points of an
\* axis that has 10; it starts from the preliminary estimates and fits the raw
\* data less the refined baseline.
C4_FinalFitMask ==
  Len(calls) >= 2 =>
    /\ calls[2].stage = "final"
    /\ MaskSet(calls[2].mask) =
         (IF Cardinality(InUserRange) < 10 THEN 1..Len(xdata) ELSE InUserRange)
    /\ (Cardinality(MaskSet(calls[2].mask)) >= 10 \/ Len(xdata) < 10)
    /\ calls[2].start = calls[1].estimates
    /\ calls[2].ys = [j \in 1..Len(xdata) |-> raw[i][j] - fittedbaseline[i][j]]

\* C4 witness: the caller's range held some points but fewer than 10, and the
\* final fit ran on the whole axis.
C4_Witness ==
  /\ Len(calls) >= 2
  /\ Cardinality(InUserRange) \in 1..9
  /\ Len(xdata) >= 10
  /\ MaskSet(calls[2].mask) = 1..Len(xdata)

\* the sum of (y[j] - y[k])^2 over the pairs j < k: n times the total sum of
\* squares of y about its mean
PairSS(y) ==
  SumSeq([p \in 1..(Len(y) * Len(y)) |->
            LET j == (p - 1) \div Len(y) + 1
                k == ((p - 1) % Len(y)) + 1
            IN IF j < k THEN (y[j] - y[k]) * (y[j] - y[k]) ELSE 0])

\* a fraction <<num, den>>, den > 0, in lowest terms
RECURSIVE GCD(_, _)
GCD(a, b) == IF b = 0 THEN a ELSE GCD(b, a % b)
Reduced(f) ==
  LET g == GCD(IF f[1] < 0 THEN -f[1] ELSE f[1], f[2])
  IN <<f[1] \div g, f[2] \div g>>

\* C5: the R^2 reported for a dataset is 1 - sse / SStot with the sse of the last
\* fit made and SStot the total sum of squares of the cleaned data over the mask
\* of that fit; it is 0 when SStot is 0.
C5_RSquared ==
  (pc = "loop" /\ Len(calls) >= 2) =>
    LET y == Compress(cleandata[i], Last(calls).mask)
        r2 == Last(quality)
    IN /\ r2[2] > 0
       /\ IF PairSS(y) = 0 THEN r2[1] = 0
          ELSE Reduced(r2) = Reduced(<<PairSS(y) - Len(y) * Last(calls).sse, PairSS(y)>>)

\* C5 witness: the auto-range refit ran, with another sse than the final fit's,
\* on data that is not constant.
C5_Witness ==
  /\ pc = "loop" /\ Len(calls) = 3
  /\ calls[3].sse # calls[2].sse
  /\ calls[3].mask # calls[2].mask
  /\ Last(quality)[2] > 1

\* the lower and the upper middle energy of the axis, by rank
MiddleLow == CHOOSE e \in {xdata[j] : j \in 1..Len(xdata)} :
               Cardinality({j \in 1..Len(xdata) : xdata[j] < e}) = (Len(xdata) - 1) \div 2
MiddleHigh == CHOOSE e \in {xdata[j] : j \in 1..Len(xdata)} :
                Cardinality({j \in 1..Len(xdata) : xdata[j] < e}) = Len(xdata) \div 2

\* the bandgap of the dataset in hand has been detected
Detected ==
  \/ pc \in {"dynamic_bounds", "prelim_fit", "baseline_refine", "final_fit",
             "auto_refine", "record"}
  \/ pc = "loop" /\ calls # <<>>

\* the points where raw less the initial baseline exceeds 0.01
AboveThreshold == {j \in 1..Len(xdata) : raw[i][j] - initial_baseline[j] > 10}

\* C6: initial_Eg is the energy of the lowest-energy point where raw less the
\* initial baseline exceeds 0.01, for either direction of the axis; the median of
\* the axis when no point does.
C6_Bandgap ==
  Detected =>
    IF AboveThreshold = {} THEN 2 * initial_Eg = MiddleLow + MiddleHigh
    ELSE \E j \in AboveThreshold :
           /\ initial_Eg = xdata[j]
           /\ \A k \in AboveThreshold : xdata[j] <= xdata[k]

\* C6 witness: a descending axis, where the lowest-energy point above the
\* threshold is the last such point in array order and not the end of the axis.
C6_Witness ==
  /\ Detected
  /\ ~IsAscending(xdata)
  /\ AboveThreshold # {}
  /\ Cardinality(AboveThreshold) > 1
  /\ \E j \in 1..Len(xdata) : j \notin AboveThreshold /\ xdata[j] < initial_Eg

\* the k lowest-energy points of the axis x
LowestK(x, k) ==
  {j \in 1..Len(x) : Cardinality({m \in 1..Len(x) : x[m] < x[j]}) < k}

\* 30% of n points, clamped to [10, 50] and to n
WindowSize(n) == Min(n, Max(10, Min(50, (3 * n) \div 10)))

\* fit_baseline was called directly on a fitter of mode 1 or 2
DirectCall == ret.kind = "fit_baseline" /\ fitmode \in {1, 2}

\* C7: with Eg known and Eb unknown or <= 0 the mask is the points below Eg when
\* at least 5 are; otherwise the 20 lowest-energy points (all of a shorter axis),
\* for either direction of the axis.
C7_LegacyMask ==
  (DirectCall /\ ret.Eg # None /\ (ret.Eb = None \/ ret.Eb[1] <= 0)) =>
    LET x == ret.xdata
        below == {j \in 1..Len(x) : x[j] < ret.Eg[1]}
    IN MaskSet(ret.result.mask) =
         (IF Cardinality(below) >= 5 THEN below ELSE LowestK(x, Min(20, Len(x))))

\* the mask of a baseline fitted without Eg: the lowest-energy window
NoContextMask(x, mask) ==
  LET n == Len(x)
      k == WindowSize(n)
  IN /\ Len(mask) = n
     /\ MaskSet(mask) = LowestK(x, k)
     /\ MaskSet(mask) = (IF IsAscending(x) THEN 1..k ELSE (n - k + 1)..n)

\* the initial baseline of the dataset in hand has been fitted
InitialBaselineDone == pc = "bandgap_detect" \/ Detected

\* C8: without Eg the mask is exactly the k lowest-energy points, k = 30% of the
\* axis clamped to [10, 50] (and to its length): the first k indices of an
\* ascending axis, the last k of a descending one. So it is in a direct call and
\* for the initial baseline of process_file.
C8_NoContextMask ==
  /\ (DirectCall /\ ret.Eg = None) => NoContextMask(ret.xdata, ret.result.mask)
  /\ (InitialBaselineDone /\ fitmode \in {1, 2}) =>
        NoContextMask(xdata, initial_baseline_mask)

\* C8 witness: a descending axis long enough for the 50-point cap.
C8_Witness ==
  /\ DirectCall /\ ret.Eg = None
  /\ ~IsAscending(ret.xdata)
  /\ Len(ret.xdata) > 50
  /\ MaskSet(ret.result.mask) = (Len(ret.xdata) - 49)..Len(ret.xdata)

\* the mask of a baseline fitted with Eg and Eb > 0
SafeThresholdMask(x, Eg, Eb, mask) ==
  LET below == {j \in 1..Len(x) : 2 * x[j] < 2 * Eg - 3 * Eb}
  IN /\ Len(mask) = Len(x)
     /\ MaskSet(mask) =
          (IF Cardinality(below) >= 5 THEN below ELSE LowestK(x, WindowSize(Len(x))))

\* the baseline of the dataset in hand has been refined
RefineDone ==
  pc \in {"final_fit", "auto_refine", "record"} \/ (pc = "loop" /\ calls # <<>>)

NoBaseline(rawcols, cols, fb, cd, bm) ==
  \A k \in 1..Len(cols) :
    /\ fb[cols[k]] = [j \in 1..Len(rawcols[cols[k]]) |-> 0]
    /\ cd[cols[k]] = rawcols[cols[k]]
    /\ k <= Len(bm) => bm[k] = [j \in 1..Len(rawcols[cols[k]]) |-> FALSE]

\* C10: in mode 0 fit_baseline returns a zero baseline as long as the axis and an
\* all-false mask, whatever Eg and Eb; and every dataset a mode-0 run of
\* process_file has processed has a zero baseline, an all-false baseline mask and
\* cleaned data equal to its raw data.
C10_ModeZero ==
  fitmode = 0 =>
    /\ ret.kind = "fit_baseline" =>
         /\ ret.result.kind = "return"
         /\ ret.result.baseline = [j \in 1..Len(ret.xdata) |-> 0]
         /\ ret.result.mask = [j \in 1..Len(ret.xdata) |-> FALSE]
    /\ ret.kind = "results" =>
         /\ Len(ret.baseline_masks) = Len(ret.T)
         /\ NoBaseline(ret.raw, ret.T, ret.fittedbaseline, ret.cleandata,
                       ret.baseline_masks)
    /\ pc \notin {"idle", "returned"} =>
         /\ NoBaseline(raw, processed_T, fittedbaseline, cleandata, baseline_masks)
         /\ RefineDone => /\ fittedbaseline[i] = [j \in 1..Len(xdata) |-> 0]
                          /\ cleandata[i] = raw[i]
                          /\ baseline_mask = [j \in 1..Len(xdata) |-> FALSE]

\* C10 witness: a mode-0 run has returned two datasets with absorption in them.
C10_Witness ==
  /\ fitmode = 0 /\ ret.kind = "results"
  /\ Len(ret.T) = 2
  /\ \E j \in 1..Len(ret.xdata) : ret.cleandata[1][j] > 0

\* C11: a fitter whose mode is not 0, 1 or 2 never gets a baseline and a mask out
\* of fit_baseline: the call raises ValueError, whatever the axis, its direction
\* and the Eg and Eb given; and process_file ends in that error at its first
\* baseline.
C11_UnsupportedMode ==
  fitmode \notin {0, 1, 2} =>
    /\ ret.kind = "fit_baseline" => ret.result.kind = "ValueError"
    /\ pc \in {"idle", "returned", "loaded", "loop", "initial_baseline"}
    /\ ret.kind # "results" \/ ret.T = <<>>

\* the positions of the axis x below the Urbach threshold |Eb - Eg|
BelowUrbachThreshold(x, Eb, Eg) ==
  {j \in 1..Len(x) : x[j] < (IF Eb < Eg THEN Eg - Eb ELSE Eb - Eg)}

\* the 0-based index of the first of them in array order
FirstBelow(x, Eb, Eg) ==
  (CHOOSE j \in BelowUrbachThreshold(x, Eb, Eg) :
     \A k \in BelowUrbachThreshold(x, Eb, Eg) : j <= k) - 1

\* the curve is intercept + slope * E at every point of the axis (NaN throughout
\* when the coefficients are NaN)
IsTailOf(fitted, slope, intersect, x) ==
  /\ Len(fitted) = Len(x)
  /\ \A j \in 1..Len(x) :
       fitted[j] = (IF slope = NaN \/ intersect = NaN THEN NaN
                    ELSE Num(intersect[1] + (slope[1] * x[j]) \div 100))

\* calculate_urbach_energy was called directly and returned
UrbachReturned == ret.kind = "urbach" /\ ret.result.kind = "return"

\* C12: when some energy is below |Eb - Eg|, with index the first such position in
\* array order, the Urbach tail is fitted on [min(index + 2, len - 1),
\* min(index + 10, len)), the 8 points index + 2 .. index + 9 whenever
\* index + 10 <= len; the slope and intercept are the line fitted to the logarithm
\* of the data there, and the returned tail is intercept + slope * E at every point
\* of the axis. The tail process_file records for a dataset is that of its slope
\* and intercept too.
C12_UrbachWindow ==
  /\ (UrbachReturned /\ BelowUrbachThreshold(ret.xdata, ret.Eb, ret.Eg) # {}) =>
       LET x == ret.xdata
           n == Len(x)
           r == ret.result
           index == FirstBelow(x, ret.Eb, ret.Eg)
           lo == IF index + 2 < n - 1 THEN index + 2 ELSE n - 1
           hi == IF index + 10 < n THEN index + 10 ELSE n
           logs == [j \in 1..(hi - lo) |-> Ln(ret.ydata[lo + j])]
           line == PolyfitLine([j \in 1..(hi - lo) |-> x[lo + j]], logs)
       IN /\ r.window = <<lo, hi>>
          /\ index + 10 <= n => (lo = index + 2 /\ hi = index + 10 /\ hi - lo = 8)
          /\ r.slope # NaN => (r.slope = Num(line.slope) /\ r.intersect = Num(line.intersect))
          /\ IsTailOf(r.fitted_urbach, r.slope, r.intersect, x)
  /\ (pc = "loop" /\ calls # <<>>) =>
       IsTailOf(fittedurbach[i], Last(slopes), Last(intersects), xdata)

\* C12 witness: a descending axis with the crossing at its first point; the line
\* is fitted on the 8 points at indices 2..9 and is not flat.
C12_Witness ==
  /\ UrbachReturned
  /\ ~IsAscending(ret.xdata)
  /\ ret.result.window = <<2, 10>>
  /\ ret.result.slope # NaN /\ ret.result.slope # Num(0)

\* C13: when no energy is below the threshold, or the clamped window has fewer
\* than 2 points, calculate_urbach_energy returns (0, 0, zeros of the axis length)
\* and calls neither np.log nor np.polyfit.
C13_UrbachFallback ==
  ret.kind = "urbach" =>
    LET x == ret.xdata
        n == Len(x)
        none == BelowUrbachThreshold(x, ret.Eb, ret.Eg) = {}
        index == FirstBelow(x, ret.Eb, ret.Eg)
        lo == IF index + 2 < n - 1 THEN index + 2 ELSE n - 1
        hi == IF index + 10 < n THEN index + 10 ELSE n
    IN (none \/ hi - lo < 2) => ret.result = UrbachFallback(n)

\* the loader has run: it is followed by the rest of process_file, or np.loadtxt
\* or raw[:, 0] has raised
LoadFailedNow == ret.kind \in {"ValueError", "IndexError"} /\ "all_lines" \in DOMAIN ret
LoaderRan == pc = "loaded" \/ LoadFailedNow

\* the text, what the loader took for the first data row and the lines it handed
\* to np.loadtxt
LoaderView ==
  IF pc = "loaded"
  THEN [file_ext |-> file_ext, all_lines |-> all_lines,
        data_start_idx |-> data_start_idx, data_lines |-> data_lines]
  ELSE [file_ext |-> ret.file_ext, all_lines |-> ret.all_lines,
        data_start_idx |-> ret.data_start_idx, data_lines |-> ret.data_lines]

\* the tokens of a line under the delimiter of the extension
TokensOf(line, ext) ==
  IF ext = ".csv"
  THEN [k \in 1..Len(SplitOn(line, ",")) |-> Strip(SplitOn(line, ",")[k])]
  ELSE SelectSeq(SplitOn(line, " "), NonEmpty)

\* a line the data may start at: not blank, no comment, at least 2 tokens of which
\* the first two are numbers
NumericRow(line, ext) ==
  /\ \E j \in 1..Len(line) : line[j] # " "
  /\ Strip(line)[1] # "#"
  /\ Len(TokensOf(Strip(line), ext)) >= 2
  /\ \A t \in 1..2 :
       LET tok == TokensOf(Strip(line), ext)[t]
       IN tok # <<>> /\ \A j \in 1..Len(tok) : IsDigit(tok[j])

NumericRows(v) == {k \in 1..Len(v.all_lines) : NumericRow(v.all_lines[k], v.file_ext)}

\* C14: the first data row is the first line that is not blank, does not start
\* with '#', has at least 2 tokens under the delimiter (comma for .csv, runs of
\* whitespace otherwise) and whose first two tokens are numbers; no line before it
\* is handed to the table reader, and every non-blank line from it on is, in order.
C14_DataStartRow ==
  (LoaderRan /\ NumericRows(LoaderView) # {}) =>
    LET v == LoaderView
        first == CHOOSE k \in NumericRows(v) : \A m \in NumericRows(v) : k <= m
        kept == {k \in first..Len(v.all_lines) : \E j \in 1..Len(v.all_lines[k]) :
                                                    v.all_lines[k][j] # " "}
    IN /\ v.data_start_idx = first - 1
       /\ Len(v.data_lines) = Cardinality(kept)
       /\ \A k \in kept :
            v.data_lines[Cardinality({m \in kept : m <= k})] = Strip(v.all_lines[k])

\* C14 witness: a .csv file with two lines above its table.
C14_Witness ==
  /\ pc = "loaded" /\ file_ext = ".csv"
  /\ data_start_idx = 2
  /\ Len(data_lines) = LenSmall /\ Len(xdata) = LenSmall

\* C15: when no line of the file has two numbers as its first two tokens, the
\* loader stops with an error; it does not take a default first line and hand
\* lines on to the table reader.
C15_NoNumericRow ==
  (LoaderRan /\ NumericRows(LoaderView) = {}) =>
    /\ LoadFailedNow
    /\ LoaderView.data_lines = <<>>

\* what process_file holds after each fit is what that fit returned
C16_Accepted ==
  /\ (InDataset /\ pc # "loop") => prelim_estimates = calls[1].estimates
  /\ (Len(calls) >= 2 /\ pc # "loop") =>
        (estimates = Last(calls).estimates /\ sse = Last(calls).sse)
  /\ ret.kind # "RuntimeError"

\* every fit is followed by the next stage of the same dataset
C16_Proceeds ==
  /\ pc = "prelim_fit" => (pc' = "baseline_refine" /\ Len(calls') = 1)
  /\ pc = "final_fit" => (pc' = "auto_refine" /\ Len(calls') = 2)
  /\ pc = "auto_refine" => (pc' = "record" /\ Len(calls') \in {2, 3})

\* C16: fit_data returns the optimizer's last iterate and the sse there whether
\* or not the optimizer reports success, and every stage of process_file goes on
\* to the next with that iterate: no run ends because a fit did not converge.
C16_NonConvergence == [](C16_Accepted) /\ [][C16_Proceeds]_vars

\* C16 witness: a dataset is in the results although none of its fits converged.
C16_Witness ==
  /\ pc = "loop" /\ Len(calls) >= 2
  /\ \A k \in 1..Len(calls) : ~calls[k].success
  /\ Last(fitresult) = Last(calls).estimates

\* fsum2d was called directly and returned
FsumReturned == ret.kind = "fsum2d" /\ ret.result.kind = "return"

\* C17: for parameters with mhcnp <= 0, fsum2d returns exactly 10 times the sse
\* it returns for the same parameters with the sign of mhcnp flipped, and the
\* same fitted curve.
C17_SoftPenalty ==
  (FsumReturned /\ ret.params[5] <= 0) =>
    LET flipped == Fsum2d([ret.params EXCEPT ![5] = -ret.params[5]], ret.xdata, ret.ydata)
    IN /\ ret.result.FittedCurve = flipped.FittedCurve
       /\ ret.result.sse = 10 * flipped.sse

\* the sum of the squared differences between two curves
SquaredError(curve, y) ==
  SumSeq([j \in 1..Len(y) |-> (curve[j] - y[j]) * (curve[j] - y[j])])

\* C17 (amended): fsum2d returns the sum of the squared residuals of the curve it
\* computed for the parameters as given, times 10 exactly when mhcnp <= 0; the
\* curve is that of the given mhcnp, sign included.
C17_PenaltyOnOwnCurve ==
  FsumReturned =>
    ret.result.sse = (IF ret.params[5] <= 0 THEN 10 ELSE 1)
                       * SquaredError(ret.result.FittedCurve, ret.ydata)

\* C17 witness: a negative mhcnp whose curve is not the curve of the positive one,
\* with a residual that is not zero.
C17_Witness ==
  /\ FsumReturned /\ ret.params[5] < 0
  /\ ret.result.sse > 0
  /\ ret.result.FittedCurve #
       Fsum2d([ret.params EXCEPT ![5] = -ret.params[5]], ret.xdata, ret.ydata).FittedCurve

\* the sum of the exciton terms of the quantum numbers in S at the point x
RECURSIVE SumOfTerms(_, _, _)
SumOfTerms(S, x, params) ==
  IF S = {} THEN 0
  ELSE LET n == CHOOSE m \in S : TRUE
       IN ExcitonTerm(n, x, params[1], params[2], params[3], params[6])
            + SumOfTerms(S \ {n}, x, params)

\* C18: when q is an integer n of 1..50, the exciton sum leaves out the term of
\* quantum number n and only that one: the other 49 terms are added, the exciton
\* curve is their sum, and the evaluation returns (no division by zero).
C18_SingularTerm ==
  \A n \in 1..50 :
    (ret.kind = "fsum2d" /\ ret.params[6] = 10 * n) =>
      /\ ret.result.kind = "return"
      /\ ret.result.terms = (1..50) \ {n}
      /\ Cardinality(ret.result.terms) = 49
      /\ \A j \in 1..Len(ret.xdata) :
           ret.result.exciton[j] =
             Scaled(ret.params[4], ret.params[2],
                    SumOfTerms((1..50) \ {n}, ret.xdata[j], ret.params))

\* C18 witness: q = 1, and the other terms give an exciton curve that is not zero.
C18_Witness ==
  /\ FsumReturned /\ ret.params[6] = 10
  /\ 1 \notin ret.result.terms
  /\ \E j \in 1..Len(ret.xdata) : ret.result.exciton[j] # 0

\* the number of fit_data calls made for the dataset in hand at each stage, and
\* what they were made for
C19_Calls ==
  /\ pc \in {"initial_baseline", "bandgap_detect", "dynamic_bounds", "prelim_fit"} =>
        calls = <<>>
  /\ pc \in {"baseline_refine", "final_fit"} => Len(calls) = 1
  /\ pc = "auto_refine" => Len(calls) = 2
  /\ (pc = "record" \/ (pc = "loop" /\ calls # <<>>)) =>
        /\ Len(calls) \in {2, 3}
        /\ Len(calls) = 3 <=>
             (auto_range # "False"
                /\ Cardinality(InAutoRange(calls[2].estimates[1])) > 10)
  /\ \A k \in 1..Len(calls) : calls[k].stage = <<"prelim", "final", "auto">>[k]

\* the stage that follows each stage; an exception ends the run instead
C19_Order ==
  /\ pc = "loop" => pc' \in {"initial_baseline", "returned"}
  /\ pc = "initial_baseline" => pc' \in {"bandgap_detect", "returned"}
  /\ pc = "bandgap_detect" => pc' = "dynamic_bounds"
  /\ pc = "dynamic_bounds" => pc' = "prelim_fit"
  /\ pc = "prelim_fit" => pc' = "baseline_refine"
  /\ pc = "baseline_refine" => pc' = "final_fit"
  /\ pc = "final_fit" => pc' = "auto_refine"
  /\ pc = "auto_refine" => pc' = "record"
  /\ pc = "record" => pc' \in {"loop", "returned"}
  /\ (pc \notin {"idle", "loaded", "returned", "loop"} /\ pc' # "returned") => i' = i
  /\ (pc \notin {"idle", "loaded", "returned", "record"} /\ pc' # "returned") =>
        processed_T' = processed_T
  /\ (pc = "record" /\ pc' = "loop") => processed_T' = Append(processed_T, i)

\* C19: every dataset goes through initial baseline, bandgap detection,
\* preliminary fit, baseline refinement, final fit, the auto-range refit if it
\* applies, and the Urbach estimate with the recording of the results, in this
\* order, none skipped and none repeated: fit_data is called twice for the
\* dataset, three times exactly when the auto-range refit runs; and the next
\* dataset starts only when the results of this one are recorded.
C19_StageOrder == [](C19_Calls) /\ [][C19_Order]_vars

\* C19 witness: a dataset is recorded after three fits and another one awaits.
C19_Witness ==
  /\ pc = "loop" /\ Len(processed_T) = 1
  /\ Len(calls) = 3
  /\ Remaining # {}

\* the bounds of the claim for a dataset whose detected bandgap is Eg0:
\* Eg within 0.2 eV of it, Eb 0.01..0.20 eV, Gamma 0..0.20 eV, ucvsq 0.01..1000,
\* mhcnp 0..0.999, q 0..1.5
C20_Lower(Eg0) == <<Eg0 - 20, 1, 0, 1, 0, 0>>
C20_Upper(Eg0) == <<Eg0 + 20, 20, 200, 100000, 999, 15>>

\* C20: every fit_data call of a dataset (preliminary, final, auto-range) is
\* given the same bounds: Eg within 0.2 eV of the detected initial_Eg, wherever
\* the preliminary or the final estimate of Eg lies, and the fixed bounds of the
\* other five parameters; the fitter's own lb and rb stay as constructed.
C20_DynamicBounds ==
  /\ calls # <<>> =>
       \A k \in 1..Len(calls) :
          /\ calls[k].lb = C20_Lower(initial_Eg)
          /\ calls[k].rb = C20_Upper(initial_Eg)
  /\ lb = <<254, 1, 0, 1, 0, 0>>
  /\ rb = <<268, 20, 200, 100000, 999, 15>>

\* C20 witness: the preliminary fit put Eg away from initial_Eg, and the final
\* fit was made after it.
C20_Witness ==
  /\ Len(calls) >= 2
  /\ calls[1].estimates[1] # initial_Eg
  /\ calls[2].start = calls[1].estimates

\* the baseline b and the mask m returned for the axis x and the data y in mode
\* 1 or 2: both as long as the axis; b all zero when m holds fewer than 2 points,
\* and otherwise the fit of the mode on the points of m
FittedOnMask(mode, x, y, b, m) ==
  /\ Len(b) = Len(x) /\ Len(m) = Len(x)
  /\ Cardinality(MaskSet(m)) < 2 => b = [j \in 1..Len(x) |-> 0]
  /\ Cardinality(MaskSet(m)) >= 2 =>
        b = (IF mode = 1 THEN LinearBaseline(Compress(x, m), Compress(y, m), x)
             ELSE RayleighBaseline(Compress(x, m), Compress(y, m), x))

\* C21: in modes 1 and 2 fit_baseline raises nothing and returns the mask it
\* selected with a baseline as long as the axis: all zero when the mask holds
\* fewer than 2 points, the fit on the masked points otherwise. So it is in a
\* direct call and for both baselines of process_file.
C21_TooFewPoints ==
  /\ DirectCall =>
        /\ ret.result.kind = "return"
        /\ ret.result.mask = BaselineMask(ret.xdata, ret.Eg, ret.Eb)
        /\ FittedOnMask(fitmode, ret.xdata, FlatCol(ret.xdata), ret.result.baseline,
                        ret.result.mask)
  /\ (InitialBaselineDone /\ fitmode \in {1, 2}) =>
        FittedOnMask(fitmode, xdata, raw[i], initial_baseline, initial_baseline_mask)
  /\ (RefineDone /\ fitmode \in {1, 2}) =>
        FittedOnMask(fitmode, xdata, raw[i], baseline, baseline_mask)

\* C21 witness: a one-point axis: the mask holds its one point and the baseline
\* is zero though the data are not.
C21_Witness ==
  /\ DirectCall
  /\ Len(ret.xdata) = 1
  /\ ret.result.mask = <<TRUE>>
  /\ ret.result.baseline = <<0>>

\* the energies of the window a call of calculate_urbach_energy on the axis x
\* fitted the tail on (none when it fell back)
UrbachWindowEnergies(x, r) ==
  IF r.window = <<>> THEN {} ELSE {x[j] : j \in (r.window[1] + 1)..r.window[2]}

\* C22: the Urbach tail is fitted on the same energies for an axis and for its
\* reversed copy: whatever calculate_urbach_energy was called with, the call with
\* the axis and the data reversed, and the same Eg and Eb, takes a window of the
\* same energies.
C22_UrbachOrientation ==
  ret.kind = "urbach" =>
    \A u \in CalculateUrbach(Reverse(ret.xdata), Reverse(ret.ydata), ret.Eb, ret.Eg) :
       UrbachWindowEnergies(Reverse(ret.xdata), u)
         = UrbachWindowEnergies(ret.xdata, ret.result)

\* the columns 1..N that the caller's list t names (all of them for None), and the
\* members of a set of columns in increasing order
Selected(t, N) ==
  IF t = None THEN 1..N ELSE {k \in 1..N : \E m \in 1..Len(t[1]) : t[1][m] = k}
Increasing(S) ==
  CHOOSE q \in [1..Cardinality(S) -> S] : \A a, b \in 1..Cardinality(S) : a < b => q[a] < q[b]

\* a run of process_file is in its dataset loop
InLoop == pc \notin {"idle", "returned", "loaded"}

\* the datasets recorded so far are the selected columns up to the loop's index,
\* in increasing order; the one in hand is selected and not yet recorded
C23_SoFar ==
  InLoop =>
    /\ processed_T =
         Increasing({k \in Selected(T_arg, Len(raw)) : k < i \/ (k = i /\ pc = "loop")})
    /\ pc # "loop" => i \in Selected(T_arg, Len(raw))

\* the loop ends by returning all the selected columns as 'T'
C23_Returned ==
  (pc = "loop" /\ pc' = "returned") =>
    /\ ret'.kind = "results"
    /\ ret'.T = Increasing(Selected(T_arg, Len(raw)))
    /\ ret'.T = processed_T

\* C23: process_file processes exactly the columns 1..N named in the caller's
\* 1-indexed list T, each once and in increasing column order whatever the order
\* and the repetitions in T; entries outside 1..N are ignored, None selects every
\* column, and the returned 'T' is the list of the processed columns in that order.
C23_DatasetSelection == [](C23_SoFar) /\ [][C23_Returned]_vars

\* C23 witness: T = [2, 1, 2, 5] on a table of two columns: column 1 then column 2
\* have been processed.
C23_Witness ==
  /\ pc = "loop"
  /\ T_arg = Some(<<2, 1, 2, 5>>)
  /\ Len(raw) = 2
  /\ processed_T = <<1, 2>>

\* the per-dataset lists and the result columns of a run on the axis x and the
\* columns rawc, in mode `mode`: the lists are as long as the list pT of the
\* processed columns; entry j goes with column pT[j]: its parameter vector, its
\* masks as long as the axis, its cleaned data the raw data less its baseline, its
\* baseline the one fitted on its baseline mask, its Urbach tail the one of its
\* slope and intercept; and the columns not in pT, other than the column `hand`
\* being worked on, are zero
Aligned(mode, x, rawc, fr, q, sl, ic, pT, fm, bm, fb, cd, fu, hand) ==
  /\ Len(fr) = Len(pT) /\ Len(q) = Len(pT) /\ Len(sl) = Len(pT) /\ Len(ic) = Len(pT)
  /\ Len(fm) = Len(pT) /\ Len(bm) = Len(pT)
  /\ Len(fb) = Len(rawc) /\ Len(cd) = Len(rawc) /\ Len(fu) = Len(rawc)
  /\ \A j \in 1..Len(pT) : pT[j] \in 1..Len(rawc)
  /\ \A j \in 1..Len(pT) :
       /\ Len(fr[j]) = 6
       /\ Len(fm[j]) = Len(x) /\ fm[j] \in [1..Len(x) -> BOOLEAN]
       /\ Len(bm[j]) = Len(x) /\ bm[j] \in [1..Len(x) -> BOOLEAN]
       /\ cd[pT[j]] = [m \in 1..Len(x) |-> rawc[pT[j]][m] - fb[pT[j]][m]]
       /\ mode \in {1, 2} => FittedOnMask(mode, x, rawc[pT[j]], fb[pT[j]], bm[j])
       /\ IsTailOf(fu[pT[j]], sl[j], ic[j], x)
  /\ \A k \in 1..Len(rawc) :
       (k # hand /\ \A j \in 1..Len(pT) : pT[j] # k) =>
          /\ fb[k] = [m \in 1..Len(x) |-> 0]
          /\ cd[k] = [m \in 1..Len(x) |-> 0]
          /\ fu[k] = [m \in 1..Len(x) |-> Num(0)]

\* what Record adds to the lists is what the dataset in hand came to
C24_Recorded ==
  (pc = "record" /\ pc' = "loop") =>
    /\ fitresult' = Append(fitresult, estimates)
    /\ processed_T' = Append(processed_T, i)
    /\ fit_masks' = Append(fit_masks, fit_mask)
    /\ baseline_masks' = Append(baseline_masks, baseline_mask)
    /\ Len(quality') = Len(quality) + 1
    /\ Len(slopes') = Len(slopes) + 1 /\ Len(intersects') = Len(intersects) + 1
    /\ fittedbaseline' = fittedbaseline /\ cleandata' = cleandata

\* C24: in the results of process_file, and all along the run, fitresult,
\* quality, slopes, intersects, T, fit_masks and baseline_masks have one entry for
\* each processed dataset, entry j being that of the dataset in column T[j]; the
\* masks are as long as the energy axis; and the result columns of the datasets
\* not processed are all zero.
C24_ResultAlignment ==
  /\ [](/\ (InLoop /\ pc # "loop") =>
             Aligned(fitmode, xdata, raw, fitresult, quality, slopes, intersects,
                     processed_T, fit_masks, baseline_masks, fittedbaseline,
                     cleandata, fittedurbach, i)
        /\ pc = "loop" =>
             Aligned(fitmode, xdata, raw, fitresult, quality, slopes, intersects,
                     processed_T, fit_masks, baseline_masks, fittedbaseline,
                     cleandata, fittedurbach, 0)
        /\ ret.kind = "results" =>
             Aligned(fitmode, ret.xdata, ret.raw, ret.fitresult, ret.quality,
                     ret.slopes, ret.intersects, ret.T, ret.fit_masks,
                     ret.baseline_masks, ret.fittedbaseline, ret.cleandata,
                     ret.fittedurbach, 0))
  /\ [][C24_Recorded]_vars

\* C24 witness: a run on a table of two columns has returned with the first one
\* processed: one entry in every list, the second column zero.
C24_Witness ==
  /\ ret.kind = "results"
  /\ Len(ret.raw) = 2
  /\ ret.T = <<1>>
  /\ Len(ret.fit_masks) = 1
  /\ \E m \in 1..Len(ret.xdata) : ret.cleandata[1][m] # 0
  /\ \E m \in 1..Len(ret.xdata) : ret.raw[2][m] # 0

====
